---- MODULE Spec2Model ----
(***************************************************************************)
(* Model of the expense tracker page (src/app/page.js): the React state of *)
(* the Home component, its event handlers and effects, the requests it has *)
(* in flight, and the Firestore collection 'items' it reads and writes.    *)
(*                                                                         *)
(* JavaScript strings are sequences of one-character strings, so that      *)
(* trim(), Number() and toFixed() are computed, not assumed.  JavaScript   *)
(* numbers are exact counts of thousandths; the amounts the model types    *)
(* into the form are binary fractions (multiples of 0.125), for which the  *)
(* double arithmetic of reduce() and toFixed() is exact.                   *)
(***************************************************************************)
EXTENDS Integers, Sequences, FiniteSets, TLC

VARIABLES items, newItem, total, error, phase, effectPending, subscription,
          snapshotDue, alerted, pending, store, nextId, now, lastEvent

vars == <<items, newItem, total, error, phase, effectPending, subscription,
          snapshotDue, alerted, pending, store, nextId, now, lastEvent>>

(***************************************************************************)
(* Bounds                                                                  *)
(***************************************************************************)
\* Number of records the clients ever ask the store to create.
MaxAdds == 2
\* Number of delete requests of this client in flight at once.
MaxPending == 1
\* How far the other client's clock is behind this client's, in clock ticks.
RemoteLag == 3

(***************************************************************************)
(* JavaScript values                                                       *)
(***************************************************************************)
null == [type |-> "null"]
JsStr(s) == [type |-> "string", s |-> s]
JsNum(m) == [type |-> "number", nan |-> FALSE, m |-> m]
NaN == [type |-> "number", nan |-> TRUE, m |-> 0]

Digits == <<"0", "1", "2", "3", "4", "5", "6", "7", "8", "9">>

IsDigit(c) == \E d \in 1..10 : Digits[d] = c

DigitVal(c) == (CHOOSE d \in 1..10 : Digits[d] = c) - 1

IsSpace(c) == c = " "

Abs(n) == IF n < 0 THEN -n ELSE n

\* String.prototype.trim: drop the white space at both ends.
RECURSIVE TrimStart(_)
TrimStart(s) ==
  IF s # <<>> /\ IsSpace(Head(s)) THEN TrimStart(Tail(s)) ELSE s

RECURSIVE TrimEnd(_)
TrimEnd(s) ==
  IF s # <<>> /\ IsSpace(s[Len(s)]) THEN TrimEnd(SubSeq(s, 1, Len(s) - 1)) ELSE s

Trim(s) == TrimEnd(TrimStart(s))

\* The value of a run of decimal digits.
RECURSIVE DigitsVal(_)
DigitsVal(s) ==
  IF s = <<>> THEN 0 ELSE 10 * DigitsVal(SubSeq(s, 1, Len(s) - 1)) + DigitVal(s[Len(s)])

AllDigits(s) == \A i \in 1..Len(s) : IsDigit(s[i])

\* Position of the first "." of s, or Len(s) + 1 when there is none.
DotPos(s) ==
  IF \E i \in 1..Len(s) : s[i] = "."
    THEN CHOOSE i \in 1..Len(s) : s[i] = "." /\ \A j \in 1..(i - 1) : s[j] # "."
    ELSE Len(s) + 1

\* An unsigned decimal literal: digits, optionally "." and digits, at least
\* one digit in all.  Fraction digits beyond the thousandths are not
\* representable and do not occur in the model's inputs.
UnsignedVal(s) ==
  LET p == DotPos(s)
      ip == SubSeq(s, 1, p - 1)
      fp == SubSeq(s, p + 1, Len(s))
      scale == CASE Len(fp) = 0 -> 1000 [] Len(fp) = 1 -> 100
                 [] Len(fp) = 2 -> 10 [] OTHER -> 1
  IN IF AllDigits(ip) /\ AllDigits(fp) /\ Len(ip) + Len(fp) > 0 /\ Len(fp) <= 3
       THEN JsNum(DigitsVal(ip) * 1000 + DigitsVal(fp) * scale)
       ELSE NaN

\* Number(string): white space is trimmed, the empty string is 0, a decimal
\* literal with an optional sign is its value, anything else is NaN.
StringToNumber(s) ==
  LET t == Trim(s)
  IN IF t = <<>> THEN JsNum(0)
     ELSE IF Head(t) = "-"
       THEN LET u == UnsignedVal(Tail(t))
            IN IF u.nan THEN NaN ELSE JsNum(-u.m)
     ELSE IF Head(t) = "+" THEN UnsignedVal(Tail(t))
     ELSE UnsignedVal(t)

\* Number(v) for the values the page passes to it (page.js:48, 78).
Number(v) ==
  CASE v.type = "number" -> v
    [] v.type = "string" -> StringToNumber(v.s)
    [] OTHER -> JsNum(0)

\* a + b on numbers: NaN is absorbing.
Plus(a, b) == IF a.nan \/ b.nan THEN NaN ELSE JsNum(a.m + b.m)

\* The decimal digits of a natural number.
RECURSIVE NatToString(_)
NatToString(n) ==
  IF n < 10 THEN <<Digits[n + 1]>>
  ELSE NatToString(n \div 10) \o <<Digits[(n % 10) + 1]>>

\* toFixed(2) cutting the digits after the second decimal off.
ToFixed2Truncating(x) ==
  IF x.nan THEN <<"N", "a", "N">>
  ELSE LET n == Abs(x.m) \div 10
           d == NatToString(n)
           padded == IF Len(d) < 3
                       THEN [i \in 1..(3 - Len(d)) |-> "0"] \o d
                       ELSE d
           k == Len(padded)
       IN (IF x.m < 0 THEN <<"-">> ELSE <<>>)
            \o SubSeq(padded, 1, k - 2) \o <<".">> \o SubSeq(padded, k - 1, k)

\* Number.prototype.toFixed(2): the integer n for which n / 100 is closest
\* to the number, the larger n on a tie, written with at least one digit
\* before the point and a "-" in front when the number is below 0.
ToFixed2(x) ==
  IF x.nan THEN <<"N", "a", "N">>
  ELSE LET n == (Abs(x.m) + 5) \div 10
           d == NatToString(n)
           padded == IF Len(d) < 3
                       THEN [i \in 1..(3 - Len(d)) |-> "0"] \o d
                       ELSE d
           k == Len(padded)
       IN (IF x.m < 0 THEN <<"-">> ELSE <<>>)
            \o SubSeq(padded, 1, k - 2) \o <<".">> \o SubSeq(padded, k - 1, k)

(***************************************************************************)
(* Inputs                                                                  *)
(***************************************************************************)
\* What the user types into the name field: "", " ", " A ".
NameInputs == { <<>>, <<" ">>, <<" ", "A", " ">> }

\* What the user types into the amount field: "", "-0.125".  The field
\* is a number input (page.js:147), so its value is the empty string or a
\* decimal literal.  addItem is modelled for every such draft, also for those
\* that a browser's interactive validation of the field's min and step
\* attributes (page.js:149-150) would hold back from submission.
PriceInputs == { <<>>, <<"-", "0", ".", "1", "2", "5">> }

\* What the user of the other client submits: {name: "Coffee", price: "3.5"}.
RemoteDrafts == { [name |-> <<"C", "o", "f", "f", "e", "e">>, price |-> <<"3", ".", "5">>] }

\* The messages setError is called with (page.js:37, 41, 54, 121).
Message(text) == [type |-> "string", text |-> text]
NameError == Message("Please enter an expense name.")
AmountError == Message("Please enter an amount.")
AddFailed == Message("Failed to add item. Please try again.")
DeleteFailed == Message("Failed to delete item. Please try again.")

EmptyDraft == [name |-> <<>>, price |-> <<>>]

(***************************************************************************)
(* The remote store                                                        *)
(***************************************************************************)
\* orderBy('createdAt', 'desc'): a is delivered before b.  Documents with
\* equal createdAt are ordered by identifier, in the same direction.
Before(a, b) ==
  \/ a.createdAt > b.createdAt
  \/ a.createdAt = b.createdAt /\ a.id > b.id

\* The documents of a sequence, first to last by Before.
RECURSIVE SortDocs(_)
SortDocs(docs) ==
  IF docs = <<>> THEN <<>>
  ELSE LET i == CHOOSE i \in 1..Len(docs) :
                  \A j \in 1..Len(docs) : j = i \/ Before(docs[i], docs[j])
           rest == [k \in 1..(Len(docs) - 1) |-> IF k < i THEN docs[k] ELSE docs[k + 1]]
       IN <<docs[i]>> \o SortDocs(rest)

\* The result set of the query q of the subscription (page.js:72).
QueryDocs(docs) == SortDocs(docs)

\* The collection without the document of an identifier.
RECURSIVE RemoveDoc(_, _)
RemoveDoc(docs, id) ==
  IF docs = <<>> THEN <<>>
  ELSE IF Head(docs).id = id THEN RemoveDoc(Tail(docs), id)
  ELSE <<Head(docs)>> \o RemoveDoc(Tail(docs), id)

(***************************************************************************)
(* Home: derived values                                                    *)
(***************************************************************************)
\* The record with the name as typed, not trimmed.
NewDocUntrimmed(draft, time) ==
  [name |-> draft.name,
   price |-> Number(JsStr(draft.price)),
   createdAt |-> time]

\* The record addItem hands to addDoc (page.js:46-50).
NewDoc(draft, time) ==
  [name |-> Trim(draft.name),
   price |-> Number(JsStr(draft.price)),
   createdAt |-> time]

\* querySnapshot.docs.map(...) (page.js:75-79).
ItemsArr(docs) ==
  [i \in 1..Len(docs) |->
     [name |-> docs[i].name,
      createdAt |-> docs[i].createdAt,
      id |-> docs[i].id,
      price |-> Number(docs[i].price)]]

\* items.reduce((sum, item) => sum + item.price, 0) (page.js:99).
RECURSIVE Reduce(_)
Reduce(list) ==
  IF list = <<>> THEN JsNum(0)
  ELSE Plus(Reduce(SubSeq(list, 1, Len(list) - 1)), list[Len(list)].price)

\* newTotal.toFixed(2) (page.js:100).
NewTotal(list) == JsStr(ToFixed2(Reduce(list)))

(***************************************************************************)
(* Initial state: the first render of Home, before its effects have run.   *)
(* The variables items, newItem, total and error hold what the setters     *)
(* were last called with.                                                  *)
(***************************************************************************)
Init ==
  /\ items = <<>>
  /\ newItem = EmptyDraft
  /\ total = JsNum(0)
  /\ error = null
  /\ phase = "rendered"
  /\ effectPending = TRUE
  /\ subscription = "none"
  /\ snapshotDue = FALSE
  /\ alerted = FALSE
  /\ pending = <<>>
  /\ store = <<>>
  /\ nextId = 1
  /\ now = 0
  /\ lastEvent = "render"

(***************************************************************************)
(* Effects                                                                 *)
(***************************************************************************)
\* The effects of the first commit: the subscription is opened
\* (page.js:71-87) and the total is computed (page.js:98-101).
Mount ==
  /\ phase = "rendered"
  /\ phase' = "mounted"
  /\ subscription' = "open"
  /\ snapshotDue' = TRUE
  /\ total' = NewTotal(items)
  /\ effectPending' = FALSE
  /\ lastEvent' = "mount"
  /\ UNCHANGED <<items, newItem, error, alerted, pending, store, nextId, now>>

\* The effect that depends on items, run after a render in which items
\* changed (page.js:98-101).  React runs a pending effect before it renders
\* the next update, so the handlers below wait for it.
TotalEffect ==
  /\ phase = "mounted"
  /\ effectPending
  /\ total' = NewTotal(items)
  /\ effectPending' = FALSE
  /\ lastEvent' = "totalEffect"
  /\ UNCHANGED <<items, newItem, error, phase, subscription, snapshotDue,
                 alerted, pending, store, nextId, now>>

\* An unmount that does not call unsubscribe.
UnmountKeepsSubscription ==
  /\ ~effectPending
  /\ phase = "mounted"
  /\ phase' = "unmounted"
  /\ lastEvent' = "unmount"
  /\ UNCHANGED <<items, newItem, total, error, effectPending, subscription,
                 snapshotDue, alerted, pending, store, nextId, now>>

\* The cleanup of the subscription effect (page.js:86).
Unmount ==
  /\ ~effectPending
  /\ phase = "mounted"
  /\ phase' = "unmounted"
  /\ subscription' = IF subscription = "open" THEN "closed" ELSE subscription
  /\ lastEvent' = "unmount"
  /\ UNCHANGED <<items, newItem, total, error, effectPending, snapshotDue,
                 alerted, pending, store, nextId, now>>

(***************************************************************************)
(* The subscription                                                        *)
(***************************************************************************)
\* The listener adding the delivered documents to the list it has.
SnapshotCallbackMerges ==
  /\ ~effectPending
  /\ subscription = "open"
  /\ snapshotDue
  /\ items' = items \o ItemsArr(QueryDocs(store))
  /\ effectPending' = TRUE
  /\ snapshotDue' = FALSE
  /\ lastEvent' = "snapshot"
  /\ UNCHANGED <<newItem, total, error, phase, subscription, alerted,
                 pending, store, nextId, now>>

\* The listener of onSnapshot (page.js:74-80).
SnapshotCallback ==
  /\ ~effectPending
  /\ subscription = "open"
  /\ snapshotDue
  /\ items' = ItemsArr(QueryDocs(store))
  /\ effectPending' = TRUE
  /\ snapshotDue' = FALSE
  /\ lastEvent' = "snapshot"
  /\ UNCHANGED <<newItem, total, error, phase, subscription, alerted,
                 pending, store, nextId, now>>

\* The error listener reporting through the error state as well.
SnapshotErrorSetsError ==
  /\ ~effectPending
  /\ subscription = "open"
  /\ alerted' = TRUE
  /\ error' = Message("Failed to fetch items. Please refresh the page.")
  /\ subscription' = "failed"
  /\ lastEvent' = "snapshotError"
  /\ UNCHANGED <<items, newItem, total, phase, effectPending,
                 snapshotDue, pending, store, nextId, now>>

\* The error listener of onSnapshot (page.js:81-84); the store ends a
\* listener it has reported an error to.
SnapshotError ==
  /\ ~effectPending
  /\ subscription = "open"
  /\ alerted' = TRUE
  /\ subscription' = "failed"
  /\ lastEvent' = "snapshotError"
  /\ UNCHANGED <<items, newItem, total, error, phase, effectPending,
                 snapshotDue, pending, store, nextId, now>>

(***************************************************************************)
(* The form                                                                *)
(***************************************************************************)
\* onChange of the name field (page.js:138).
ChangeName(v) ==
  /\ ~effectPending
  /\ phase = "mounted"
  /\ newItem' = [newItem EXCEPT !.name = v]
  /\ lastEvent' = "changeName"
  /\ UNCHANGED <<items, total, error, phase, effectPending, subscription,
                 snapshotDue, alerted, pending, store, nextId, now>>

\* onChange of the amount field (page.js:145).
ChangePrice(v) ==
  /\ ~effectPending
  /\ phase = "mounted"
  /\ newItem' = [newItem EXCEPT !.price = v]
  /\ lastEvent' = "changePrice"
  /\ UNCHANGED <<items, total, error, phase, effectPending, subscription,
                 snapshotDue, alerted, pending, store, nextId, now>>

\* addItem with its two checks in the other order.
AddItemAmountFirst ==
  /\ ~effectPending
  /\ phase = "mounted"
  /\ lastEvent' = "addItem"
  /\ IF newItem.price = <<>>
       THEN /\ error' = AmountError
            /\ UNCHANGED <<pending, now>>
       ELSE IF Trim(newItem.name) = <<>>
         THEN /\ error' = NameError
              /\ UNCHANGED <<pending, now>>
         ELSE /\ now < MaxAdds
              /\ error' = null
              /\ pending' = Append(pending, [op |-> "add", doc |-> NewDoc(newItem, now)])
              /\ now' = now + 1
  /\ UNCHANGED <<items, newItem, total, phase, effectPending, subscription,
                 snapshotDue, alerted, store, nextId>>

\* addItem without its check of the amount.
AddItemNoAmountCheck ==
  /\ ~effectPending
  /\ phase = "mounted"
  /\ lastEvent' = "addItem"
  /\ IF Trim(newItem.name) = <<>>
       THEN /\ error' = NameError
            /\ UNCHANGED <<pending, now>>
       ELSE /\ now < MaxAdds
            /\ error' = null
            /\ pending' = Append(pending, [op |-> "add", doc |-> NewDoc(newItem, now)])
            /\ now' = now + 1
  /\ UNCHANGED <<items, newItem, total, phase, effectPending, subscription,
                 snapshotDue, alerted, store, nextId>>

\* addItem refusing to write while an earlier add is in flight.
AddItemGuarded ==
  /\ ~effectPending
  /\ phase = "mounted"
  /\ lastEvent' = "addItem"
  /\ IF Trim(newItem.name) = <<>>
       THEN /\ error' = NameError
            /\ UNCHANGED <<pending, now>>
       ELSE IF newItem.price = <<>>
         THEN /\ error' = AmountError
              /\ UNCHANGED <<pending, now>>
         ELSE IF \E k \in 1..Len(pending) : pending[k].op = "add"
           THEN /\ error' = null
                /\ UNCHANGED <<pending, now>>
           ELSE /\ now < MaxAdds
                /\ error' = null
                /\ pending' = Append(pending, [op |-> "add", doc |-> NewDoc(newItem, now)])
                /\ now' = now + 1
  /\ UNCHANGED <<items, newItem, total, phase, effectPending, subscription,
                 snapshotDue, alerted, store, nextId>>

\* addItem without its setError(null).
AddItemKeepsError ==
  /\ ~effectPending
  /\ phase = "mounted"
  /\ lastEvent' = "addItem"
  /\ IF Trim(newItem.name) = <<>>
       THEN /\ error' = NameError
            /\ UNCHANGED <<pending, now>>
       ELSE IF newItem.price = <<>>
         THEN /\ error' = AmountError
              /\ UNCHANGED <<pending, now>>
         ELSE /\ now < MaxAdds
              /\ error' = error
              /\ pending' = Append(pending, [op |-> "add", doc |-> NewDoc(newItem, now)])
              /\ now' = now + 1
  /\ UNCHANGED <<items, newItem, total, phase, effectPending, subscription,
                 snapshotDue, alerted, store, nextId>>

\* addItem up to its await (page.js:32-50).
AddItem ==
  /\ ~effectPending
  /\ phase = "mounted"
  /\ lastEvent' = "addItem"
  /\ IF Trim(newItem.name) = <<>>
       THEN /\ error' = NameError
            /\ UNCHANGED <<pending, now>>
       ELSE IF newItem.price = <<>>
         THEN /\ error' = AmountError
              /\ UNCHANGED <<pending, now>>
         ELSE /\ now < MaxAdds
              /\ error' = null
              /\ pending' = Append(pending, [op |-> "add", doc |-> NewDoc(newItem, now)])
              /\ now' = now + 1
  /\ UNCHANGED <<items, newItem, total, phase, effectPending, subscription,
                 snapshotDue, alerted, store, nextId>>

\* addItem building the record from the draft as it is when addDoc resolves.
AddDocResolvedReadsDraft ==
  /\ ~effectPending
  /\ pending # <<>>
  /\ Head(pending).op = "add"
  /\ store' = Append(store, [name |-> NewDoc(newItem, 0).name,
                             price |-> NewDoc(newItem, 0).price,
                             createdAt |-> Head(pending).doc.createdAt,
                             id |-> nextId])
  /\ nextId' = nextId + 1
  /\ snapshotDue' = TRUE
  /\ pending' = Tail(pending)
  /\ newItem' = EmptyDraft
  /\ lastEvent' = "addResolved"
  /\ UNCHANGED <<items, total, error, phase, effectPending, subscription,
                 alerted, now>>

\* addItem putting the new record into the list itself on success.
AddDocResolvedOptimistic ==
  /\ ~effectPending
  /\ pending # <<>>
  /\ Head(pending).op = "add"
  /\ store' = Append(store, [name |-> Head(pending).doc.name,
                             price |-> Head(pending).doc.price,
                             createdAt |-> Head(pending).doc.createdAt,
                             id |-> nextId])
  /\ nextId' = nextId + 1
  /\ snapshotDue' = TRUE
  /\ pending' = Tail(pending)
  /\ newItem' = EmptyDraft
  /\ items' = ItemsArr(<<store'[Len(store')]>>) \o items
  /\ effectPending' = TRUE
  /\ lastEvent' = "addResolved"
  /\ UNCHANGED <<total, error, phase, subscription, alerted, now>>

\* addDoc resolves: the store has created the document; addItem resumes
\* (page.js:46-51).  The store answers the writes of a client in the order
\* they were issued.
AddDocResolved ==
  /\ ~effectPending
  /\ pending # <<>>
  /\ Head(pending).op = "add"
  /\ store' = Append(store, [name |-> Head(pending).doc.name,
                             price |-> Head(pending).doc.price,
                             createdAt |-> Head(pending).doc.createdAt,
                             id |-> nextId])
  /\ nextId' = nextId + 1
  /\ snapshotDue' = TRUE
  /\ pending' = Tail(pending)
  /\ newItem' = EmptyDraft
  /\ lastEvent' = "addResolved"
  /\ UNCHANGED <<items, total, error, phase, effectPending, subscription,
                 alerted, now>>

\* The catch of addItem issuing the rejected write once more.
AddDocRejectedRetries ==
  /\ ~effectPending
  /\ pending # <<>>
  /\ Head(pending).op = "add"
  /\ pending' = Append(Tail(pending), Head(pending))
  /\ error' = AddFailed
  /\ lastEvent' = "addRejected"
  /\ UNCHANGED <<items, newItem, total, phase, effectPending, subscription,
                 snapshotDue, alerted, store, nextId, now>>

\* The catch of addItem, clearing the draft as the success path does.
AddDocRejectedClearsDraft ==
  /\ ~effectPending
  /\ pending # <<>>
  /\ Head(pending).op = "add"
  /\ pending' = Tail(pending)
  /\ error' = AddFailed
  /\ newItem' = EmptyDraft
  /\ lastEvent' = "addRejected"
  /\ UNCHANGED <<items, total, phase, effectPending, subscription,
                 snapshotDue, alerted, store, nextId, now>>

\* addDoc rejects: addItem resumes in its catch (page.js:52-55).
AddDocRejected ==
  /\ ~effectPending
  /\ pending # <<>>
  /\ Head(pending).op = "add"
  /\ pending' = Tail(pending)
  /\ error' = AddFailed
  /\ lastEvent' = "addRejected"
  /\ UNCHANGED <<items, newItem, total, phase, effectPending, subscription,
                 snapshotDue, alerted, store, nextId, now>>

(***************************************************************************)
(* Delete                                                                  *)
(***************************************************************************)
\* The number of delete requests in flight.
PendingDeletes == Cardinality({ k \in 1..Len(pending) : pending[k].op = "delete" })

\* deleteItem clearing the error before it asks for confirmation.
DeleteItemClearsFirst(id, confirmed) ==
  /\ ~effectPending
  /\ phase = "mounted"
  /\ \E k \in 1..Len(items) : items[k].id = id
  /\ error' = null
  /\ IF confirmed
       THEN /\ PendingDeletes < MaxPending
            /\ pending' = Append(pending, [op |-> "delete", id |-> id])
            /\ lastEvent' = "deleteItem"
       ELSE /\ UNCHANGED pending
            /\ lastEvent' = "deleteDeclined"
  /\ UNCHANGED <<items, newItem, total, phase, effectPending, subscription,
                 snapshotDue, alerted, store, nextId, now>>

\* deleteItem without its setError(null).
DeleteItemKeepsError(id, confirmed) ==
  /\ ~effectPending
  /\ phase = "mounted"
  /\ \E k \in 1..Len(items) : items[k].id = id
  /\ IF confirmed
       THEN /\ PendingDeletes < MaxPending
            /\ pending' = Append(pending, [op |-> "delete", id |-> id])
            /\ lastEvent' = "deleteItem"
       ELSE /\ UNCHANGED pending
            /\ lastEvent' = "deleteDeclined"
  /\ UNCHANGED <<items, newItem, total, error, phase, effectPending,
                 subscription, snapshotDue, alerted, store, nextId, now>>

\* deleteItem up to its await, for a row of the list and the answer to
\* window.confirm (page.js:113-117, 168).
DeleteItem(id, confirmed) ==
  /\ ~effectPending
  /\ phase = "mounted"
  /\ \E k \in 1..Len(items) : items[k].id = id
  /\ IF confirmed
       THEN /\ PendingDeletes < MaxPending
            /\ error' = null
            /\ pending' = Append(pending, [op |-> "delete", id |-> id])
            /\ lastEvent' = "deleteItem"
       ELSE /\ UNCHANGED <<error, pending>>
            /\ lastEvent' = "deleteDeclined"
  /\ UNCHANGED <<items, newItem, total, phase, effectPending, subscription,
                 snapshotDue, alerted, store, nextId, now>>

\* deleteDoc resolves (page.js:117-118).
DeleteDocResolved ==
  /\ ~effectPending
  /\ pending # <<>>
  /\ Head(pending).op = "delete"
  /\ store' = RemoveDoc(store, Head(pending).id)
  /\ snapshotDue' = (snapshotDue \/ store' # store)
  /\ pending' = Tail(pending)
  /\ lastEvent' = "deleteResolved"
  /\ UNCHANGED <<items, newItem, total, error, phase, effectPending,
                 subscription, alerted, nextId, now>>

\* deleteDoc rejects (page.js:119-122).
DeleteDocRejected ==
  /\ ~effectPending
  /\ pending # <<>>
  /\ Head(pending).op = "delete"
  /\ pending' = Tail(pending)
  /\ error' = DeleteFailed
  /\ lastEvent' = "deleteRejected"
  /\ UNCHANGED <<items, newItem, total, phase, effectPending, subscription,
                 snapshotDue, alerted, store, nextId, now>>

(***************************************************************************)
(* Another client running the same page                                    *)
(***************************************************************************)
\* An add of another client, from a valid draft and its own clock, accepted
\* by the store (page.js:45-50).
RemoteAdd(draft) ==
  /\ Trim(draft.name) # <<>>
  /\ draft.price # <<>>
  /\ now < MaxAdds
  /\ store' = Append(store, [name |-> NewDoc(draft, now - RemoteLag).name,
                             price |-> NewDoc(draft, now - RemoteLag).price,
                             createdAt |-> now - RemoteLag,
                             id |-> nextId])
  /\ nextId' = nextId + 1
  /\ now' = now + 1
  /\ snapshotDue' = TRUE
  /\ lastEvent' = "remoteAdd"
  /\ UNCHANGED <<items, newItem, total, error, phase, effectPending,
                 subscription, alerted, pending>>

Next ==
  \/ Mount
  \/ TotalEffect
  \/ Unmount
  \/ SnapshotCallback
  \/ SnapshotError
  \/ \E v \in NameInputs : ChangeName(v)
  \/ \E v \in PriceInputs : ChangePrice(v)
  \/ AddItem
  \/ AddDocResolved
  \/ AddDocRejected
  \/ \E id \in 1..MaxAdds, confirmed \in BOOLEAN : DeleteItem(id, confirmed)
  \/ DeleteDocResolved
  \/ DeleteDocRejected
  \/ \E draft \in RemoteDrafts : RemoteAdd(draft)

Spec == Init /\ [][Next]_vars

\* The page when React runs every effect it has scheduled and the store
\* calls the listener of an open subscription after every change.
FairSpec == Spec /\ WF_vars(TotalEffect) /\ WF_vars(SnapshotCallback)

(***************************************************************************)
(* The same snapshot twice                                                 *)
(***************************************************************************)
\* The listener adding a repeated result set to the list it has.
SnapshotRepeatedMerges ==
  /\ ~effectPending
  /\ subscription = "open"
  /\ ~snapshotDue
  /\ items' = items \o ItemsArr(QueryDocs(store))
  /\ effectPending' = TRUE
  /\ lastEvent' = "snapshotRepeated"
  /\ UNCHANGED <<newItem, total, error, phase, subscription, snapshotDue,
                 alerted, pending, store, nextId, now>>

\* The listener of onSnapshot (page.js:74-80) called once more with the
\* result set of its last call: nothing has changed at the store since.
SnapshotRepeated ==
  /\ ~effectPending
  /\ subscription = "open"
  /\ ~snapshotDue
  /\ items' = ItemsArr(QueryDocs(store))
  /\ effectPending' = TRUE
  /\ lastEvent' = "snapshotRepeated"
  /\ UNCHANGED <<newItem, total, error, phase, subscription, snapshotDue,
                 alerted, pending, store, nextId, now>>

NextRepeated == Next \/ SnapshotRepeated

\* The page with a store that may deliver a result set twice in a row.
SpecRepeated == Init /\ [][NextRepeated]_vars

(***************************************************************************)
(* Properties                                                              *)
(***************************************************************************)
\* A string of white space only, the empty string included.
IsBlank(s) == \A i \in 1..Len(s) : s[i] = " "

\* The step is an add attempt: addItem ran up to its return or its await.
AddAttempt == lastEvent' = "addItem"

\* An add attempt that issues no write and changes neither draft nor list.
RejectedWith(message) ==
  /\ error' = message
  /\ pending' = pending
  /\ store' = store
  /\ newItem' = newItem
  /\ items' = items

\* C1: an add attempt on a draft whose name is empty or white space only,
\* whatever its amount, sets the name error, issues no write and leaves draft
\* and items as they are.
C1_BlankNameRejected ==
  [][AddAttempt /\ IsBlank(newItem.name) => RejectedWith(NameError)]_vars

\* C1 happens: an add attempt was rejected for a white-space name although
\* the amount was filled in.
C1_Witness ==
  /\ lastEvent = "addItem"
  /\ error = NameError
  /\ newItem.name = <<" ">>
  /\ newItem.price # <<>>

\* C2: an add attempt on a draft with a name and an empty amount sets the
\* amount error, issues no write and leaves draft and items as they are.
C2_EmptyAmountRejected ==
  [][AddAttempt /\ ~IsBlank(newItem.name) /\ newItem.price = <<>>
       => RejectedWith(AmountError)]_vars

\* C2 happens: an add attempt was rejected for its empty amount.
C2_Witness ==
  /\ lastEvent = "addItem"
  /\ error = AmountError
  /\ ~IsBlank(newItem.name)
  /\ newItem.price = <<>>

\* A number that is not NaN and not below 0.
IsNonNegative(v) == v.type = "number" /\ ~v.nan /\ v.m >= 0

\* C3: every item of the list has a non-empty name and a price that is a
\* number >= 0, and so has every record an add has submitted to the store.
C3_ItemsValid ==
  /\ \A i \in 1..Len(items) :
       items[i].name # <<>> /\ IsNonNegative(items[i].price)
  /\ \A i \in 1..Len(pending) :
       pending[i].op = "add" =>
         pending[i].doc.name # <<>> /\ IsNonNegative(pending[i].doc.price)

\* t is raw without the white space at its two ends.
IsTrimOf(t, raw) ==
  /\ t = <<>> \/ (t[1] # " " /\ t[Len(t)] # " ")
  /\ \E a \in 0..Len(raw) :
       /\ a + Len(t) <= Len(raw)
       /\ SubSeq(raw, a + 1, a + Len(t)) = t
       /\ IsBlank(SubSeq(raw, 1, a))
       /\ IsBlank(SubSeq(raw, a + Len(t) + 1, Len(raw)))

\* The numbers the amounts of the model denote, in thousandths.
AmountOf(p) ==
  CASE p = <<"-", "0", ".", "1", "2", "5">> -> JsNum(-125)
    [] p = <<"3", ".", "5">> -> JsNum(3500)

\* C4: an add attempt that passes validation issues exactly one write, of the
\* record {trimmed name, amount as a number, current time}; when the write
\* succeeds the store has exactly that one record more and the draft is reset
\* to {name: "", price: ""}.
C4_AddWritesRecord ==
  [][/\ (AddAttempt /\ ~IsBlank(newItem.name) /\ newItem.price # <<>>) =>
          /\ Len(pending') = Len(pending) + 1
          /\ SubSeq(pending', 1, Len(pending)) = pending
          /\ LET r == pending'[Len(pending')]
             IN /\ r.op = "add"
                /\ IsTrimOf(r.doc.name, newItem.name)
                /\ r.doc.price = AmountOf(newItem.price)
                /\ r.doc.createdAt = now
          /\ store' = store
          /\ newItem' = newItem
     /\ lastEvent' = "addResolved" =>
          /\ Len(store') = Len(store) + 1
          /\ SubSeq(store', 1, Len(store)) = store
          /\ LET d == store'[Len(store')]
                 r == Head(pending)
             IN /\ r.op = "add"
                /\ d.name = r.doc.name
                /\ d.price = r.doc.price
                /\ d.createdAt = r.doc.createdAt
          /\ pending' = Tail(pending)
          /\ newItem' = [name |-> <<>>, price |-> <<>>]]_vars

\* C4 happens: the write of {name: "A", price: -0.125} has succeeded and the
\* draft is empty again.
C4_Witness ==
  /\ lastEvent = "addResolved"
  /\ newItem = [name |-> <<>>, price |-> <<>>]
  /\ \E i \in 1..Len(store) :
       store[i].name = <<"A">> /\ store[i].price = JsNum(-125)

\* C5: when the store rejects an add, error becomes the add-failed message
\* and draft, items and total stay as they are.
C5_AddFailureKeepsDraft ==
  [][lastEvent' = "addRejected" =>
       /\ error' = AddFailed
       /\ newItem' = newItem
       /\ items' = items
       /\ total' = total
       /\ store' = store]_vars

\* C5 happens: an add was rejected and the draft still holds the input.
C5_Witness ==
  /\ lastEvent = "addRejected"
  /\ error = AddFailed
  /\ ~IsBlank(newItem.name)
  /\ newItem.price # <<>>

\* C6: a delete whose confirmation is declined issues no store call and
\* changes neither items, draft, total nor error.
C6_DeclinedDeleteNoChange ==
  [][lastEvent' = "deleteDeclined" =>
       /\ pending' = pending
       /\ store' = store
       /\ items' = items
       /\ newItem' = newItem
       /\ total' = total
       /\ error' = error]_vars

\* C6 happens: a delete was declined while an error message was shown, and
\* the message is still there.
C6_Witness ==
  /\ lastEvent = "deleteDeclined"
  /\ error # null
  /\ items # <<>>

\* The identifiers of the rows of the list.
ItemIds == { items[k].id : k \in 1..Len(items) }

\* C7: a confirmed delete clears the error and issues exactly one delete
\* request for an identifier of the list; a rejection sets the delete-failed
\* message; a success leaves error as it is; none of the three changes items,
\* draft or total.
C7_ConfirmedDelete ==
  [][/\ lastEvent' = "deleteItem" =>
          /\ error' = null
          /\ Len(pending') = Len(pending) + 1
          /\ SubSeq(pending', 1, Len(pending)) = pending
          /\ pending'[Len(pending')].op = "delete"
          /\ pending'[Len(pending')].id \in ItemIds
          /\ store' = store
          /\ <<items, newItem, total>>' = <<items, newItem, total>>
     /\ lastEvent' = "deleteRejected" =>
          /\ error' = DeleteFailed
          /\ Head(pending).op = "delete"
          /\ pending' = Tail(pending)
          /\ store' = store
          /\ <<items, newItem, total>>' = <<items, newItem, total>>
     /\ lastEvent' = "deleteResolved" =>
          /\ error' = error
          /\ Head(pending).op = "delete"
          /\ pending' = Tail(pending)
          /\ \A k \in 1..Len(store') : store'[k].id # Head(pending).id
          /\ <<items, newItem, total>>' = <<items, newItem, total>>]_vars

\* C7 happens: the store has rejected a confirmed delete.
C7_Witness ==
  /\ lastEvent = "deleteRejected"
  /\ error = DeleteFailed
  /\ items # <<>>

\* C8: only the subscription callback changes items.
C8_OnlySnapshotChangesItems ==
  [][items' # items => lastEvent' = "snapshot"]_vars

\* C8 happens: a delete has succeeded at the store and the deleted row is
\* still in the list.
C8_Witness ==
  /\ lastEvent = "deleteResolved"
  /\ \E i \in 1..Len(items) :
       \A k \in 1..Len(store) : store[k].id # items[i].id

\* C9: after a subscription callback items is the result set: as long as the
\* collection, newest createdAt first, each element with the identifier, name
\* and createdAt of its document and the price as a number.
C9_SnapshotReplacesItems ==
  [][lastEvent' = "snapshot" =>
       /\ Len(items') = Len(store)
       /\ \A i \in 1..Len(items') :
            /\ items'[i].price.type = "number"
            /\ \E k \in 1..Len(store) :
                 /\ store[k].id = items'[i].id
                 /\ store[k].name = items'[i].name
                 /\ store[k].createdAt = items'[i].createdAt
                 /\ store[k].price = items'[i].price
       /\ \A i, j \in 1..Len(items') :
            i < j =>
              \/ items'[i].createdAt > items'[j].createdAt
              \/ /\ items'[i].createdAt = items'[j].createdAt
                 /\ items'[i].id > items'[j].id]_vars

\* C9 happens: a callback has delivered two documents.
C9_Witness ==
  /\ lastEvent = "snapshot"
  /\ Len(items) = 2
  /\ items[1].createdAt > items[2].createdAt

\* The sum of the prices of a list, in thousandths.
RECURSIVE SumOfPrices(_)
SumOfPrices(list) ==
  IF list = <<>> THEN 0 ELSE Head(list).price.m + SumOfPrices(Tail(list))

\* A decimal numeral with exactly two digits after the point.
IsTwoDecimals(s) ==
  LET u == IF s # <<>> /\ Head(s) = "-" THEN Tail(s) ELSE s
  IN /\ Len(u) >= 4
     /\ u[Len(u) - 2] = "."
     /\ \A i \in 1..Len(u) : i # Len(u) - 2 => IsDigit(u[i])

\* total is the sum of the prices of items rounded to the nearest hundredth,
\* away from zero on a tie, written with exactly two decimals.
TotalIsSumOfItems ==
  /\ total.type = "string"
  /\ IsTwoDecimals(total.s)
  /\ LET v == StringToNumber(total.s).m
         sum == SumOfPrices(items)
     IN \/ Abs(v - sum) < 5
        \/ Abs(v - sum) = 5 /\ Abs(v) > Abs(sum)
  /\ items = <<>> => total.s = <<"0", ".", "0", "0">>

\* C10 as claimed: in every state total is the formatted sum of items.
C10_TotalAlwaysCurrent == TotalIsSumOfItems

\* C10 as amended: in every state in which the effect that recomputes total
\* is not pending, total is the formatted sum of items.
C10_TotalCurrentAfterEffect == ~effectPending => TotalIsSumOfItems

\* C10 happens: the effect has run for a list of 3.5 and -0.125 and total is
\* "3.38".
C10_Witness ==
  /\ ~effectPending
  /\ Len(items) = 2
  /\ total = JsStr(<<"3", ".", "3", "8">>)

\* C11: the list orders the items by the order in which the store accepted
\* them, newest first, whatever the clocks of the clients that added them
\* (the store hands out identifiers in the order it accepts records).
C11_OrderFollowsAcceptance ==
  \A i, j \in 1..Len(items) : i < j => items[i].id > items[j].id

\* C12: a subscription error raises the notification and leaves error,
\* items, total and draft as they are; afterwards the subscription is never
\* opened again and the list is not changed any more.
C12_SubscriptionError ==
  [][/\ lastEvent' = "snapshotError" =>
          /\ alerted'
          /\ error' = error
          /\ items' = items
          /\ total' = total
          /\ newItem' = newItem
     /\ subscription = "failed" =>
          /\ subscription' = "failed"
          /\ items' = items]_vars

\* C12 happens: the subscription has failed while the list showed items and
\* no error message was set.
C12_Witness ==
  /\ lastEvent = "snapshotError"
  /\ alerted
  /\ error = null
  /\ items # <<>>

\* C13: after an add attempt error is that attempt's validation message, or
\* empty when the attempt issued its write, whatever error held before.
C13_AddClearsError ==
  [][AddAttempt =>
       error' = IF IsBlank(newItem.name) THEN NameError
                ELSE IF newItem.price = <<>> THEN AmountError
                ELSE null]_vars

\* C13 happens: an add attempt has issued its write and error is empty.
C13_Witness ==
  /\ lastEvent = "addItem"
  /\ error = null
  /\ pending # <<>>
  /\ pending[Len(pending)].op = "add"

\* C14: a callback with the result set of the callback before it leaves
\* items and total as they are, and so does the effect that follows it.
C14_RepeatedSnapshotIdempotent ==
  [][/\ lastEvent' = "snapshotRepeated" =>
          /\ items' = items
          /\ total' = total
     /\ (lastEvent = "snapshotRepeated" /\ lastEvent' = "totalEffect") =>
          /\ items' = items
          /\ total' = total]_vars

\* C14 happens: a result set of two documents was delivered a second time
\* and total still is the sum of items.
C14_Witness ==
  /\ lastEvent = "snapshotRepeated"
  /\ effectPending
  /\ Len(items) = 2
  /\ TotalIsSumOfItems

\* C15: the subscription is opened by the activation and by nothing else,
\* once; the deactivation leaves no subscription open; and after it items is
\* not changed and no subscription is opened.
C15_SubscriptionScoped ==
  [][/\ lastEvent' = "mount" => subscription = "none" /\ subscription' = "open"
     /\ (subscription # "open" /\ subscription' = "open") => lastEvent' = "mount"
     /\ lastEvent' = "unmount" => subscription' # "open"
     /\ phase = "unmounted" =>
          /\ phase' = "unmounted"
          /\ subscription' # "open"
          /\ items' = items]_vars

\* C15 happens: the page is deactivated, its subscription closed, and a
\* record added at the store afterwards is not delivered.
C15_Witness ==
  /\ phase = "unmounted"
  /\ subscription = "closed"
  /\ lastEvent = "remoteAdd"
  /\ snapshotDue
  /\ Len(store) > Len(items)

\* items is the collection: the same documents, newest createdAt first.
ShowsStore ==
  /\ Len(items) = Len(store)
  /\ \A k \in 1..Len(store) :
       \E i \in 1..Len(items) :
         /\ items[i].id = store[k].id
         /\ items[i].name = store[k].name
         /\ items[i].price = store[k].price
  /\ \A i \in 1..(Len(items) - 1) :
       items[i].createdAt >= items[i + 1].createdAt

\* C16: while the subscription is open, every change committed at the store
\* is eventually followed by a callback after which items is the collection,
\* unless the subscription fails or is closed first.
C16_ChangeEventuallyShown ==
  (subscription = "open" /\ snapshotDue)
    ~> (subscription # "open" \/ (lastEvent = "snapshot" /\ ShowsStore))

\* C16 happens: a callback has put the record this client added into the
\* list.
C16_Witness ==
  /\ lastEvent = "snapshot"
  /\ ShowsStore
  /\ \E i \in 1..Len(items) : items[i].name = <<"A">>

\* C17: a request is issued only by a submit that passed validation or by a
\* confirmed delete, one request for one such action; the answer to a request,
\* a failure included, takes that request out of flight and issues none; the
\* collection is changed only by the answer to a request or by another
\* client.  So the requests never outnumber those user actions.
C17_NoRetry ==
  [][/\ Len(pending') > Len(pending) =>
          /\ lastEvent' \in {"addItem", "deleteItem"}
          /\ pending' = Append(pending, pending'[Len(pending')])
     /\ lastEvent' \in {"addResolved", "addRejected",
                         "deleteResolved", "deleteRejected"} =>
          pending' = Tail(pending)
     /\ lastEvent' \notin {"addItem", "deleteItem", "addResolved", "addRejected",
                            "deleteResolved", "deleteRejected"} =>
          pending' = pending
     /\ store' # store =>
          lastEvent' \in {"addResolved", "deleteResolved", "remoteAdd"}]_vars

\* C17 happens: an add has failed and no request is in flight.
C17_Witness ==
  /\ lastEvent = "addRejected"
  /\ error = AddFailed
  /\ pending = <<>>
  /\ store = <<>>

\* The draft is not the one the add request at the head of the queue was
\* built from.
EditedInFlight ==
  /\ pending # <<>>
  /\ Head(pending).op = "add"
  /\ \/ ~IsTrimOf(Head(pending).doc.name, newItem.name)
     \/ newItem.price = <<>>
     \/ AmountOf(newItem.price) # Head(pending).doc.price

\* C18: an edit of the draft leaves the requests in flight as they are; when
\* the draft was edited while an add was in flight, success stores the record
\* as submitted and empties the draft, and failure keeps the edited draft.
C18_InFlightEdits ==
  [][/\ lastEvent' \in {"changeName", "changePrice"} =>
          pending' = pending /\ store' = store
     /\ (lastEvent' = "addResolved" /\ EditedInFlight) =>
          /\ store'[Len(store')].name = Head(pending).doc.name
          /\ store'[Len(store')].price = Head(pending).doc.price
          /\ store'[Len(store')].createdAt = Head(pending).doc.createdAt
          /\ newItem' = [name |-> <<>>, price |-> <<>>]
     /\ (lastEvent' = "addRejected" /\ EditedInFlight) =>
          /\ newItem' = newItem
          /\ store' = store]_vars

\* C18 happens: an add has failed and the draft holds the white-space name
\* typed while it was in flight.
C18_Witness ==
  /\ lastEvent = "addRejected"
  /\ newItem.name = <<" ">>
  /\ newItem.price # <<>>

\* C19: an add attempt that passes validation while an add is in flight
\* issues one more add request, with the name and price of every request in
\* flight that was built from the same draft.
C19_NoInFlightGuard ==
  [][(/\ AddAttempt
      /\ ~IsBlank(newItem.name)
      /\ newItem.price # <<>>
      /\ \E k \in 1..Len(pending) : pending[k].op = "add") =>
       /\ Len(pending') = Len(pending) + 1
       /\ SubSeq(pending', 1, Len(pending)) = pending
       /\ pending'[Len(pending')].op = "add"
       /\ \A k \in 1..Len(pending) :
            (/\ pending[k].op = "add"
             /\ IsTrimOf(pending[k].doc.name, newItem.name)
             /\ pending[k].doc.price = AmountOf(newItem.price)) =>
              /\ pending'[Len(pending')].doc.name = pending[k].doc.name
              /\ pending'[Len(pending')].doc.price = pending[k].doc.price]_vars

\* C19 happens: two add requests with the same name and price are in flight.
C19_Witness ==
  /\ lastEvent = "addItem"
  /\ Len(pending) = 2
  /\ pending[1].op = "add"
  /\ pending[2].op = "add"
  /\ pending[1].doc.name = pending[2].doc.name
  /\ pending[1].doc.price = pending[2].doc.price

====
